---- MODULE Spec2Model ----
(***************************************************************************)
(* Long-Term Feature Bank (mmaction/models/common/lfb.py).                 *)
(*                                                                         *)
(* A job of world_size processes each builds one LFB object (__init__) and *)
(* then queries it (sample_long_term_features).  The partition files and   *)
(* the lmdb directory live on disk and are shared by the processes.        *)
(***************************************************************************)
EXTENDS Integers, Sequences, FiniteSets, TLC

\* ------------------------------------------------------------------ bounds
MaxWorld == 2        \* processes of a job: world_size is 1 or MaxWorld
MaxWindow == 4       \* window_size ranges over {MaxWindow - 1, MaxWindow}
MaxK == 2            \* max_num_sampled_feat ranges over {1, MaxK}
MaxTimestamp == 4    \* queried timestamps range over 0..MaxTimestamp
Channels == 2        \* lfb_channels of the modelled runs
SmallMap == 20       \* a map_size the first entries fit in, not the bank
LargeMap == 200      \* a map_size every bank of the model fits in
MaxIO == 2           \* processes calling wrapped functions on one file
MaxRanks == 2        \* ranks of a wrap-up: 1 or MaxRanks
MaxLen == 3          \* len(self.metadata) ranges over 1..MaxLen
MaxCalls == 5        \* successive calls of run_or_load

VARIABLES
    path_exists,           \* osp.exists(lfb_prefix_path)
    lmdb_imported,         \* the module's lmdb_imported
    dataset_modes_arg,     \* the dataset_modes argument of __init__
    lfb_channels,          \* self.lfb_channels
    window_size,           \* self.window_size
    max_num_sampled_feat,  \* self.max_num_sampled_feat
    dataset_modes,         \* self.dataset_modes, a tuple of partition names
    device,                \* self.device
    construct_lmdb,        \* self.construct_lmdb
    world_size,            \* get_dist_info()[1]
    pc,                    \* pc[rank]: where the process of that rank stands
    err,                   \* err[rank]: the exception that ended the process
    lfb,                   \* lfb[rank]: self.lfb of the in-memory backends
    local_lfb,             \* local_lfb[rank]: `lfb` inside load_lfb_on_lmdb
    todo,                  \* todo[rank]: entries lfb.items() has yet to yield
    wtxn,                  \* wtxn[rank]: the process's write transaction
    store,                 \* the lmdb directory at lfb_lmdb_path
    arrived,               \* ranks that have entered dist.barrier()
    lmdb_env,              \* lmdb_env[rank]: the read-only handle is open
    ran_construct,         \* ranks that have called load_lfb_on_lmdb
    loads,                 \* loads[rank]: partition files torch.load has read
    lmdb_map_size,         \* self.lmdb_map_size, in bytes
    warned,                \* warned[rank]: the UserWarning of line 100 was given
    begun,                 \* begun[rank]: write transactions the rank has begun
    last,                  \* outcome of the most recent query
    \* my_util/file.py: processes calling functions wrapped by
    \* safe_save_or_load on one file name fn
    run_fn,                \* os.path.exists(fn + ".run")
    fn_file,               \* the file fn: absent, or its bytes
    io_mode,               \* io_mode[i]: the decorator's mode of the call
    io_obj,                \* io_obj[i]: the object a save call is given
    io_pc,                 \* io_pc[i]: where the call stands
    io_ret,                \* io_ret[i]: what the call returned or raised
    \* my_util/file.py: successive calls of run_or_load on one file_path
    cache_file,            \* the file file_path: absent, or its bytes
    func_calls,            \* how many times func(**args) has been called
    rol,                   \* the most recent call of run_or_load
    \* datasets/lsmdc_choice.py: one call of LSMDCChoiceDataset.__getitem__
    metadata_len,          \* len(self.metadata)
    unreadable,            \* positions whose video get_video cannot read
    index,                 \* the local `index`
    sample,                \* the local `sample`: unbound, or a position
    ds_pc,                 \* where the call stands
    ds_exc,                \* the exception the except clause is handling
    ds_ret,                \* what the call returned or raised
    \* modules/objectives.py: the ranks of a job in vqa_test_wrapup or
    \* arc_test_wrapup
    wrapup,                \* which of the two functions: "vqa" or "arc"
    ranks,                 \* torch.distributed.get_world_size()
    outs,                  \* outs[rank]: the records the rank is given
    submit,                \* submit[n]: the per-rank file of number n
    result_file,           \* the merged file under result/
    paths,                 \* rank 0's `paths` still to be read
    jsons,                 \* rank 0's `jsons`
    w_pc,                  \* w_pc[rank]: where the rank stands
    w_err,                 \* w_err[rank]: the exception that ended the rank
    arrived1,              \* ranks that have entered the first barrier
    arrived2               \* ranks that have entered the second barrier

vars == <<path_exists, lmdb_imported, dataset_modes_arg, lfb_channels,
          window_size, max_num_sampled_feat, dataset_modes,
          device, construct_lmdb, world_size, pc, err, lfb, local_lfb, todo,
          wtxn, store, arrived, lmdb_env, ran_construct, loads,
          lmdb_map_size, warned, begun, last>>

fvars == <<run_fn, fn_file, io_mode, io_obj, io_pc, io_ret>>

cvars == <<cache_file, func_calls, rol>>

dvars == <<metadata_len, unreadable, index, sample, ds_pc, ds_exc, ds_ret>>

wvars == <<wrapup, ranks, outs, submit, result_file, paths, jsons, w_pc, w_err,
           arrived1, arrived2>>

\* What the steps of LFB leave alone: the state of the other programs.
NotLfb == <<fvars, cvars, dvars, wvars>>

\* What the steps of safe_save_or_load leave alone.
NotFile == <<vars, cvars, dvars, wvars>>

\* What run_or_load leaves alone.
NotCache == <<vars, fvars, dvars, wvars>>

\* What LSMDCChoiceDataset.__getitem__ leaves alone.
NotDataset == <<vars, fvars, cvars, wvars>>

\* What the wrap-up functions leave alone.
NotWrapup == <<vars, fvars, cvars, dvars>>

config == <<path_exists, lmdb_imported, dataset_modes_arg, lfb_channels,
            window_size, max_num_sampled_feat, dataset_modes,
            device, construct_lmdb, world_size, lmdb_map_size>>

Procs == 0 .. (world_size - 1)
Timestamps == 0 .. MaxTimestamp
VideoIds == {"x", "y", "z"}

Min(a, b) == IF a < b THEN a ELSE b

\* ------------------------------------------------------- python dictionary
\* A dict keeps its keys in insertion order: keys is that order, map the
\* values.
EmptyDict == [keys |-> << >>, map |-> << >>]

Has(d, k) == k \in DOMAIN d.map

KeySet(d) == DOMAIN d.map

\* Mutant of Update: a key already there keeps its value (first wins).
Update_KeepFirst(d, e) ==
    [keys |-> d.keys \o SelectSeq(e.keys, LAMBDA k : ~Has(d, k)),
     map  |-> [k \in KeySet(d) \cup KeySet(e) |->
                 IF Has(d, k) THEN d.map[k] ELSE e.map[k]]]

\* dict.update(e): keys of e replace the value and keep their position, new
\* keys are appended in e's order.
Update(d, e) ==
    [keys |-> d.keys \o SelectSeq(e.keys, LAMBDA k : ~Has(d, k)),
     map  |-> [k \in KeySet(d) \cup KeySet(e) |->
                 IF Has(e, k) THEN e.map[k] ELSE d.map[k]]]

\* ---------------------------------------------------------- partition files
\* A feature vector of lfb_channels entries, all equal to v.
Vec(v) == [c \in 1 .. lfb_channels |-> v]

\* FeatureRecords: second -> tensor of roi features (a sequence of rows).
RecA == (2 :> << Vec(1), Vec(2) >>) @@ (3 :> << Vec(9) >>)
RecB == (2 :> << Vec(3), Vec(4), Vec(5) >>)
RecC == (0 :> << Vec(0) >>) @@ (4 :> << Vec(7), Vec(7) >>) @@ (5 :> << >>)

\* The partitions whose file lfb_<mode>.pkl is under lfb_prefix_path; "test"
\* names a partition whose file is not there, and a directory that does not
\* exist holds no file.
FileExists(mode) == path_exists /\ mode \in {"train", "val"}

\* torch.load(lfb_path, map_location=...) of a file that is there.
PartitionFile(mode) ==
    CASE mode = "train" -> [keys |-> << "x" >>, map |-> ("x" :> RecA)]
      [] mode = "val"   -> [keys |-> << "y", "x" >>,
                            map  |-> ("y" :> RecC) @@ ("x" :> RecB)]

ModeChoices ==
    { << "train" >>, << "train", "val" >>, << "val", "train" >>,
      << "val", "test" >> }

\* The values passed as dataset_modes: a tuple of names, or one name as a
\* plain str.
ModeArguments ==
    { [kind |-> "tuple", value |-> modes] : modes \in ModeChoices }
      \cup { [kind |-> "str", value |-> "train"] }

\* Mutant of DatasetModes: the str is not wrapped, and the loops over
\* dataset_modes iterate over its characters.
DatasetModes_NoWrap(arg) ==
    IF arg.kind = "tuple" THEN arg.value ELSE << "t", "r", "a", "i", "n" >>

\* if not isinstance(dataset_modes, tuple): dataset_modes = (dataset_modes, )
DatasetModes(arg) ==
    IF arg.kind # "tuple" THEN << arg.value >> ELSE arg.value

\* ------------------------------------------------------------ serialization
RECURSIVE Flatten(_)
\* The rows of a tensor, row-major.
Flatten(rows) ==
    IF rows = << >> THEN << >> ELSE Head(rows) \o Flatten(Tail(rows))

RECURSIVE Ascending(_)
\* The members of a finite set of integers, ascending.
Ascending(S) ==
    IF S = {} THEN << >>
    ELSE LET m == CHOOSE a \in S : \A b \in S : a <= b
         IN  << m >> \o Ascending(S \ {m})

RECURSIVE SaveSeconds(_, _)
SaveSeconds(value, secs) ==
    IF secs = << >> THEN << >>
    ELSE LET rows == value[Head(secs)]
         IN  << Head(secs), Len(rows), lfb_channels >> \o Flatten(rows)
                \o SaveSeconds(value, Tail(secs))

\* Mutant of TorchSave: without buff.seek(0), buff.read() returns no bytes.
TorchSave_NoSeek(value) == << >>

\* torch.save(value, buff); buff.seek(0); buff.read(): the bytes of one
\* FeatureRecord: the number of seconds, then for each second its key, the
\* shape of its tensor and the tensor's entries.
TorchSave(value) ==
    LET secs == Ascending(DOMAIN value)
    IN  << Len(secs) >> \o SaveSeconds(value, secs)

RECURSIVE LoadSeconds(_, _, _)
LoadSeconds(buf, pos, n) ==
    IF n = 0 THEN << >>
    ELSE LET sec   == buf[pos]
             nrows == buf[pos + 1]
             ncols == buf[pos + 2]
             rows  == [i \in 1 .. nrows |->
                         [j \in 1 .. ncols |->
                            buf[pos + 2 + (i - 1) * ncols + j]]]
         IN  (sec :> rows) @@ LoadSeconds(buf, pos + 3 + nrows * ncols, n - 1)

\* torch.load(io.BytesIO(buf)) of a non-empty buffer.
TorchLoad(buf) == LoadSeconds(buf, 2, buf[1])

\* str.encode(): the UTF-8 bytes of a video id.
Encode(key) ==
    CASE key = "x" -> << 120 >>
      [] key = "y" -> << 121 >>
      [] key = "z" -> << 122 >>

\* ------------------------------------------------------------- lmdb store
\* The directory at lfb_lmdb_path: absent, or an environment holding kv.
NoStore == [exists |-> FALSE, kv |-> << >>]

\* txn.put(key, value) followed by txn.commit(): overwrite is the default.
Put(kv, key, value) ==
    [b \in DOMAIN kv \cup {key} |-> IF b = key THEN value ELSE kv[b]]

\* io.BytesIO(txn.get(key)): txn.get returns None for a key the store does
\* not hold, and BytesIO(None) is the empty buffer.
BytesIOGet(kv, key) == IF key \in DOMAIN kv THEN kv[key] ELSE << >>

RECURSIVE PutAll(_, _, _)
PutAll(kv, d, keys) ==
    IF keys = << >> THEN kv
    ELSE PutAll(Put(kv, Encode(Head(keys)), TorchSave(d.map[Head(keys)])),
                d, Tail(keys))

RECURSIVE Merge(_, _)
\* The bank the loop over modes builds from the partition files.
Merge(d, modes) ==
    IF modes = << >> THEN d
    ELSE Merge(Update(d, PartitionFile(Head(modes))), Tail(modes))

\* The store a finished load_lfb_on_lmdb of an earlier launch left behind,
\* that launch having been configured with dataset_modes = modes.
StoreBuiltFrom(modes) ==
    LET d == Merge(EmptyDict, modes)
    IN  [exists |-> TRUE, kv |-> PutAll(<< >>, d, d.keys)]

\* What the lmdb directory can hold when the job starts.
StoreChoices ==
    { NoStore, StoreBuiltFrom(<< "train", "val" >>) }

\* ----------------------------------------------------------------- sampler
\* numpy's permutation(n): the orderings of 0 .. n-1.
Permutation(n) ==
    { p \in [1 .. n -> 0 .. (n - 1)] :
        \A i, j \in 1 .. n : i # j => p[i] # p[j] }

\* Mutant of Choice: replace=True, the draws are independent.
Choice_WithReplacement(num_feat, size) ==
    [1 .. size -> 0 .. (num_feat - 1)]

\* Mutant of Choice: a seed is fixed, the draw is always the same.
Choice_Seeded(num_feat, size) ==
    { [i \in 1 .. size |-> i - 1] }

\* np.random.choice(range(num_feat), size, replace=False), which numpy
\* computes as permutation(num_feat)[:size]: every value it can return.
\* Zero samples of an empty range are the empty array.
Choice(num_feat, size) ==
    { SubSeq(p, 1, size) : p \in Permutation(num_feat) }

\* Mutant of NumFeatSampled: the count is not capped by K.
NumFeatSampled_NoCap(num_feat) == num_feat

\* num_feat_sampled = min(num_feat, K)
NumFeatSampled(num_feat) == Min(num_feat, max_num_sampled_feat)

\* Mutant of Start: the window ends at the timestamp.
Start_WholeWindow(timestamp) == timestamp - window_size

\* start = timestamp - (window_size // 2)
Start(timestamp) == timestamp - (window_size \div 2)
\* torch.zeros(window_size * K, lfb_channels), rows indexed from 0.  rows is
\* the tensor; from[r] records which feature of which second row r was last
\* assigned from.
NotAssigned == << >>

Zeros ==
    [rows |-> [r \in 0 .. (window_size * max_num_sampled_feat - 1) |->
                 [c \in 1 .. lfb_channels |-> 0]],
     from |-> [r \in 0 .. (window_size * max_num_sampled_feat - 1) |->
                 NotAssigned]]

\* Mutant of RowIndex: slot-major instead of second-major.
RowIndex_SlotMajor(idx, k) == idx + k * window_size

\* The row index idx * K + k of lt_feats[idx * K + k] = ...
RowIndex(idx, k) == idx * max_num_sampled_feat + k

\* lt_feats[row] = video_features[sec][rand_idx]
Assign(lt, row, feats, sec, rand_idx) ==
    [rows |-> [lt.rows EXCEPT ![row] = feats[rand_idx + 1]],
     from |-> [lt.from EXCEPT ![row] = << sec, rand_idx >>]]

RECURSIVE FillSecond(_, _, _, _, _, _)
\* for k, rand_idx in enumerate(random_lfb_indices): ...
FillSecond(lt, feats, sec, random_lfb_indices, idx, k) ==
    IF k = Len(random_lfb_indices) THEN lt
    ELSE FillSecond(
             Assign(lt, RowIndex(idx, k), feats, sec,
                    random_lfb_indices[k + 1]),
             feats, sec, random_lfb_indices, idx, k + 1)

RECURSIVE FillWindow(_, _, _, _, _)
\* for idx, sec in enumerate(range(start, start + window_size)): ...
\* draws[idx + 1] is what np.random.choice returned for that second.
FillWindow(lt, video_features, start, draws, idx) ==
    IF idx = window_size THEN lt
    ELSE LET sec == start + idx
         IN  FillWindow(
                 IF sec \in DOMAIN video_features
                 THEN FillSecond(lt, video_features[sec], sec,
                                 draws[idx + 1], idx, 0)
                 ELSE lt,
                 video_features, start, draws, idx + 1)

RECURSIVE Draws(_, _, _)
\* Every sequence of results the calls of np.random.choice of one query can
\* return, one per second of the window (<< >> where it is not called).
Draws(video_features, start, idx) ==
    IF idx = window_size THEN { << >> }
    ELSE LET sec == start + idx
             here == IF sec \in DOMAIN video_features
                     THEN Choice(Len(video_features[sec]),
                                 NumFeatSampled(Len(video_features[sec])))
                     ELSE { << >> }
         IN  { << c >> \o rest :
                 c \in here, rest \in Draws(video_features, start, idx + 1) }

\* The body of sample_long_term_features after video_features is resolved.
Sample(video_features, timestamp, draws) ==
    FillWindow(Zeros, video_features, Start(timestamp), draws, 0)
\* ------------------------------------------------------------------ __init__
NoTxn == [open |-> FALSE, puts |-> << >>]

\* The outcome of a call on the LFB object.  status: "ok" when a block is
\* returned (lt_feats), "len" when __len__ returns (value), else the
\* exception raised; op: the method called; lookups: how many times the
\* backend was asked for the record.
NoQuery ==
    [status |-> "none", op |-> "", rank |-> 0, video_id |-> "",
     timestamp |-> 0, img_key |-> << >>, lookups |-> 0, value |-> 0,
     draws |-> << >>, lt_feats |-> << >>]

\* The arguments of __init__ and what the environment decides, but for the
\* size of the job and of the map.
Configured ==
    /\ path_exists \in BOOLEAN
    /\ lmdb_imported \in BOOLEAN
    /\ lfb_channels = Channels
    /\ window_size \in {MaxWindow - 1, MaxWindow}
    /\ max_num_sampled_feat \in {1, MaxK}
    /\ dataset_modes_arg \in ModeArguments
    /\ dataset_modes = DatasetModes(dataset_modes_arg)
    /\ device \in {"gpu", "cpu", "lmdb", "tpu"}
    /\ construct_lmdb \in (IF device = "lmdb" THEN BOOLEAN ELSE {TRUE})

\* Every process of the job is about to call LFB(...).
Started ==
    /\ store \in (IF device = "lmdb" /\ path_exists /\ lmdb_imported
                  THEN StoreChoices ELSE {NoStore})
    /\ loads = [p \in Procs |-> 0]
    /\ warned = [p \in Procs |-> FALSE]
    /\ begun = [p \in Procs |-> 0]
    /\ pc = [p \in Procs |-> "init"]
    /\ err = [p \in Procs |-> ""]
    /\ lfb = [p \in Procs |-> EmptyDict]
    /\ local_lfb = [p \in Procs |-> EmptyDict]
    /\ todo = [p \in Procs |-> << >>]
    /\ wtxn = [p \in Procs |-> NoTxn]
    /\ arrived = {}
    /\ lmdb_env = [p \in Procs |-> FALSE]
    /\ ran_construct = {}
    /\ last = NoQuery

\* No call of my_util/file.py is under way.
FileIdle ==
    /\ run_fn = FALSE
    /\ fn_file = << >>
    /\ io_mode = << >>
    /\ io_obj = << >>
    /\ io_pc = << >>
    /\ io_ret = << >>

CacheIdle ==
    /\ cache_file = << >>
    /\ func_calls = 0
    /\ rol = << >>

DatasetIdle ==
    /\ metadata_len = 0
    /\ unreadable = {}
    /\ index = 0
    /\ sample = << >>
    /\ ds_pc = ""
    /\ ds_exc = ""
    /\ ds_ret = << >>

WrapupIdle ==
    /\ wrapup = ""
    /\ ranks = 0
    /\ outs = << >>
    /\ submit = << >>
    /\ result_file = << >>
    /\ paths = << >>
    /\ jsons = << >>
    /\ w_pc = << >>
    /\ w_err = << >>
    /\ arrived1 = {}
    /\ arrived2 = {}

\* The jobs whose queries are followed: the in-memory backends, whose
\* processes share nothing, with one process; the lmdb backend with one
\* process or MaxWorld, and a map the bank fits in.
Init ==
    /\ Configured
    /\ world_size \in (IF device = "lmdb" THEN {1, MaxWorld} ELSE {1})
    /\ lmdb_map_size = LargeMap
    /\ Started
    /\ FileIdle
    /\ CacheIdle
    /\ DatasetIdle
    /\ WrapupIdle

\* The jobs whose construction is followed: every backend with one process
\* or MaxWorld, the lmdb map large or too small for the bank.
ConstructionInit ==
    /\ Configured
    /\ world_size \in {1, MaxWorld}
    /\ lmdb_map_size \in (IF device = "lmdb" /\ construct_lmdb
                          THEN {SmallMap, LargeMap} ELSE {LargeMap})
    /\ Started
    /\ FileIdle
    /\ CacheIdle
    /\ DatasetIdle
    /\ WrapupIdle

\* Every partition file named by modes is there for torch.load to read.
AllFilesExist(modes) ==
    \A i \in 1 .. Len(modes) : FileExists(modes[i])

RECURSIVE Loaded(_)
\* The number of partition files the loop over modes reads before it ends
\* or torch.load raises.
Loaded(modes) ==
    IF modes = << >> \/ ~FileExists(Head(modes)) THEN 0
    ELSE 1 + Loaded(Tail(modes))

\* Mutant of InitError: lfb_prefix_path is not checked.
InitError_NoPathCheck ==
    IF device \in {"gpu", "cpu"} THEN ""
    ELSE IF device = "lmdb"
         THEN IF lmdb_imported THEN "" ELSE "AssertionError"
         ELSE "ValueError: device"

\* Mutant of InitError: lmdb_imported is not asserted.
InitError_NoImportCheck ==
    IF ~path_exists THEN "ValueError: path"
    ELSE IF device \in {"gpu", "cpu", "lmdb"} THEN ""
         ELSE "ValueError: device"

\* The exception the checks of __init__ raise, "" when they raise none: the
\* ValueError for a missing lfb_prefix_path first, then in the device
\* branches the assertion on lmdb_imported for 'lmdb' and the ValueError
\* for an unknown device.
InitError ==
    IF ~path_exists THEN "ValueError: path"
    ELSE IF device \in {"gpu", "cpu"} THEN ""
         ELSE IF device = "lmdb"
              THEN IF lmdb_imported THEN "" ELSE "AssertionError"
              ELSE "ValueError: device"

\* __init__ raising from one of its checks.
InitRaises(p) ==
    /\ pc[p] = "init"
    /\ InitError # ""
    /\ pc' = [pc EXCEPT ![p] = "failed"]
    /\ err' = [err EXCEPT ![p] = InitError]
    /\ UNCHANGED << config, lfb, local_lfb, todo, wtxn, store, arrived,
                    lmdb_env, ran_construct, loads, last >>
    /\ UNCHANGED << warned, begun >>
    /\ UNCHANGED NotLfb

\* Mutant of ShouldConstruct: the rank test is dropped.
ShouldConstruct_AnyRank(rank) == construct_lmdb

\* if rank == 0 and self.construct_lmdb:
ShouldConstruct(rank) == rank = 0 /\ construct_lmdb

\* Mutant of AfterItems: the loop over lfb.items() is left with items unwritten.
AfterItems_LeaveEarly(items) == "barrier"

\* Where a process stands once `for key, value in lfb.items()` has items
\* left, or has none.
AfterItems(items) == IF items = << >> THEN "barrier" ELSE "txn_begin"

\* Mutant of Warns: the warning does not look at world_size.
Warns_Always == device = "cpu"

\* The 'cpu' branch warns that the bank is replicated when world_size > 1.
Warns == device = "cpu" /\ world_size > 1

\* __init__ with device 'gpu' or 'cpu': the warning of the 'cpu' branch and
\* load_lfb, the whole of it.
InitInMemory(p) ==
    /\ pc[p] = "init"
    /\ InitError = ""
    /\ device \in {"gpu", "cpu"}
    /\ loads' = [loads EXCEPT ![p] = Loaded(dataset_modes)]
    /\ IF AllFilesExist(dataset_modes)
       THEN /\ lfb' = [lfb EXCEPT ![p] = Merge(EmptyDict, dataset_modes)]
            /\ pc' = [pc EXCEPT ![p] = "ready"]
            /\ err' = err
       ELSE /\ pc' = [pc EXCEPT ![p] = "failed"]
            /\ err' = [err EXCEPT ![p] = "FileNotFoundError"]
            /\ lfb' = lfb
    /\ UNCHANGED << config, local_lfb, todo, wtxn, store, arrived, lmdb_env,
                    ran_construct, last >>
    /\ warned' = [warned EXCEPT ![p] = Warns]
    /\ UNCHANGED begun
    /\ UNCHANGED NotLfb

\* __init__ with device 'lmdb', up to the first write transaction: the rank
\* that constructs enters load_lfb_on_lmdb, merges the partitions and opens
\* the environment for writing (which creates it); the others go on to the
\* barrier.
InitLmdb(p) ==
    /\ pc[p] = "init"
    /\ InitError = ""
    /\ device = "lmdb"
    /\ IF ShouldConstruct(p)
       THEN /\ ran_construct' = ran_construct \cup {p}
            /\ loads' = [loads EXCEPT ![p] = Loaded(dataset_modes)]
            /\ IF AllFilesExist(dataset_modes)
               THEN LET merged == Merge(EmptyDict, dataset_modes)
                    IN  /\ local_lfb' = [local_lfb EXCEPT ![p] = merged]
                        /\ todo' = [todo EXCEPT ![p] = merged.keys]
                        /\ store' = [store EXCEPT !.exists = TRUE]
                        /\ pc' = [pc EXCEPT ![p] = AfterItems(merged.keys)]
                        /\ err' = err
               ELSE /\ pc' = [pc EXCEPT ![p] = "failed"]
                    /\ err' = [err EXCEPT ![p] = "FileNotFoundError"]
                    /\ UNCHANGED << local_lfb, todo, store >>
       ELSE /\ pc' = [pc EXCEPT ![p] = "barrier"]
            /\ UNCHANGED << ran_construct, loads, local_lfb, todo, store,
                            err >>
    /\ UNCHANGED << config, lfb, wtxn, arrived, lmdb_env, last >>
    /\ UNCHANGED << warned, begun >>
    /\ UNCHANGED NotLfb

\* lmdb lets one write transaction be open at a time.
WriterLockFree == \A q \in Procs : ~wtxn[q].open

\* txn = lmdb_env.begin(write=True)
TxnBegin(p) ==
    /\ pc[p] = "txn_begin"
    /\ WriterLockFree
    /\ wtxn' = [wtxn EXCEPT ![p] = [open |-> TRUE, puts |-> << >>]]
    /\ pc' = [pc EXCEPT ![p] = "txn_put"]
    /\ UNCHANGED << config, err, lfb, local_lfb, todo, store, arrived,
                    lmdb_env, ran_construct, loads, last >>
    /\ begun' = [begun EXCEPT ![p] = @ + 1]
    /\ UNCHANGED warned
    /\ UNCHANGED NotLfb

RECURSIVE SizeOf(_, _)
\* The bytes the entries of kv under the keys of the sequence take.
SizeOf(kv, keys) ==
    IF keys = << >> THEN 0
    ELSE Len(Head(keys)) + Len(kv[Head(keys)]) + SizeOf(kv, Tail(keys))

RECURSIVE AsSeq(_)
\* The elements of a finite set in some order.
AsSeq(S) ==
    IF S = {} THEN << >>
    ELSE LET e == CHOOSE e \in S : TRUE IN << e >> \o AsSeq(S \ {e})

\* Mutant of MapFull: the map never fills.
MapFull_Never(kv) == FALSE

\* The environment opened with map_size=self.lmdb_map_size cannot hold kv:
\* the put that would get it there raises lmdb.MapFullError.
MapFull(kv) == SizeOf(kv, AsSeq(DOMAIN kv)) > lmdb_map_size

\* Mutant of PutsAfter: the put is not made.
PutsAfter_Dropped(puts, key, value) == puts

\* The puts of the transaction after txn.put(key, value).
PutsAfter(puts, key, value) == Append(puts, << key, value >>)

\* torch.save(value, buff); txn.put(key.encode(), buff.read()): the put
\* joins the transaction, or raises when the map is full; the exception
\* leaves __init__ and the transaction, never committed, is dropped.
TxnPut(p) ==
    /\ pc[p] = "txn_put"
    /\ LET key == Head(todo[p])
           value == local_lfb[p].map[key]
       IN  IF MapFull(Put(store.kv, Encode(key), TorchSave(value)))
           THEN /\ wtxn' = [wtxn EXCEPT ![p] = NoTxn]
                /\ pc' = [pc EXCEPT ![p] = "failed"]
                /\ err' = [err EXCEPT ![p] = "lmdb.MapFullError"]
           ELSE /\ wtxn' = [wtxn EXCEPT ![p].puts =
                               PutsAfter(@, Encode(key), TorchSave(value))]
                /\ pc' = [pc EXCEPT ![p] = "txn_commit"]
                /\ err' = err
    /\ UNCHANGED << config, lfb, local_lfb, todo, store, arrived,
                    lmdb_env, ran_construct, loads, last >>
    /\ UNCHANGED << warned, begun >>
    /\ UNCHANGED NotLfb

RECURSIVE Apply(_, _)
\* The store's contents once the puts of a transaction are committed.
Apply(kv, puts) ==
    IF puts = << >> THEN kv
    ELSE Apply(Put(kv, Head(puts)[1], Head(puts)[2]), Tail(puts))

\* txn.commit(), and the loop's step to the next item.
TxnCommit(p) ==
    /\ pc[p] = "txn_commit"
    /\ store' = [store EXCEPT !.kv = Apply(@, wtxn[p].puts)]
    /\ wtxn' = [wtxn EXCEPT ![p] = NoTxn]
    /\ todo' = [todo EXCEPT ![p] = Tail(@)]
    /\ pc' = [pc EXCEPT ![p] = AfterItems(Tail(todo[p]))]
    /\ UNCHANGED << config, err, lfb, local_lfb, arrived, lmdb_env,
                    ran_construct, loads, last >>
    /\ UNCHANGED << warned, begun >>
    /\ UNCHANGED NotLfb

\* if world_size > 1: dist.barrier() -- the process enters the barrier.
BarrierEnter(p) ==
    /\ pc[p] = "barrier"
    /\ IF world_size > 1
       THEN /\ arrived' = arrived \cup {p}
            /\ pc' = [pc EXCEPT ![p] = "in_barrier"]
       ELSE /\ arrived' = arrived
            /\ pc' = [pc EXCEPT ![p] = "open"]
    /\ UNCHANGED << config, err, lfb, local_lfb, todo, wtxn, store, lmdb_env,
                    ran_construct, loads, last >>
    /\ UNCHANGED << warned, begun >>
    /\ UNCHANGED NotLfb

\* Mutant of BarrierReleased: the barrier holds nobody back.
BarrierReleased_NoWait == TRUE

\* dist.barrier() returns once every process of the group has entered it.
BarrierReleased == arrived = Procs

BarrierExit(p) ==
    /\ pc[p] = "in_barrier"
    /\ BarrierReleased
    /\ pc' = [pc EXCEPT ![p] = "open"]
    /\ UNCHANGED << config, err, lfb, local_lfb, todo, wtxn, store, arrived,
                    lmdb_env, ran_construct, loads, last >>
    /\ UNCHANGED << warned, begun >>
    /\ UNCHANGED NotLfb

\* self.lmdb_env = lmdb.open(self.lfb_lmdb_path, readonly=True): an error
\* when there is no environment at the path.
OpenReadonly(p) ==
    /\ pc[p] = "open"
    /\ IF store.exists
       THEN /\ lmdb_env' = [lmdb_env EXCEPT ![p] = TRUE]
            /\ pc' = [pc EXCEPT ![p] = "ready"]
            /\ err' = err
       ELSE /\ pc' = [pc EXCEPT ![p] = "failed"]
            /\ err' = [err EXCEPT ![p] = "lmdb.Error"]
            /\ lmdb_env' = lmdb_env
    /\ UNCHANGED << config, lfb, local_lfb, todo, wtxn, store, arrived,
                    ran_construct, loads, last >>
    /\ UNCHANGED << warned, begun >>
    /\ UNCHANGED NotLfb

\* ------------------------------------------------ sample_long_term_features
\* Mutant of Failed: the error is swallowed and a zero block returned.
Failed_Suppressed(p, video_id, timestamp, exception) ==
    [status |-> "ok", op |-> "sample", rank |-> p, video_id |-> video_id,
     timestamp |-> timestamp, img_key |-> << >>, lookups |-> 1, value |-> 0,
     draws |-> [i \in 1 .. window_size |-> << >>], lt_feats |-> Zeros]

\* The lookup of video_features raises: the exception leaves the method.
Failed(p, video_id, timestamp, exception) ==
    [status |-> exception, op |-> "sample", rank |-> p,
     video_id |-> video_id, timestamp |-> timestamp, img_key |-> << >>,
     lookups |-> 1, value |-> 0, draws |-> << >>, lt_feats |-> << >>]

\* return lt_feats
Returned(p, video_id, timestamp, draws, lt_feats) ==
    [status |-> "ok", op |-> "sample", rank |-> p, video_id |-> video_id,
     timestamp |-> timestamp, img_key |-> << >>, lookups |-> 1, value |-> 0,
     draws |-> draws, lt_feats |-> lt_feats]

\* Mutant of Outcomes: a window that starts before second 0 is refused.
Outcomes_BoundsChecked(p, video_id, timestamp, video_features) ==
    IF Start(timestamp) < 0
    THEN { Failed(p, video_id, timestamp, "IndexError") }
    ELSE { Returned(p, video_id, timestamp, draws,
                    Sample(video_features, timestamp, draws)) :
             draws \in Draws(video_features, Start(timestamp), 0) }

\* Every outcome of sample_long_term_features(video_id, timestamp) once
\* video_features is resolved.
Outcomes(p, video_id, timestamp, video_features) ==
    { Returned(p, video_id, timestamp, draws,
               Sample(video_features, timestamp, draws)) :
        draws \in Draws(video_features, Start(timestamp), 0) }

\* Every outcome of the query in the process of rank p.
QueryOutcomes(p, video_id, timestamp) ==
    IF device = "lmdb"
    THEN LET buf == BytesIOGet(store.kv, Encode(video_id))
         IN  IF buf = << >>
             THEN { Failed(p, video_id, timestamp, "EOFError") }
             ELSE Outcomes(p, video_id, timestamp, TorchLoad(buf))
    ELSE IF Has(lfb[p], video_id)
         THEN Outcomes(p, video_id, timestamp, lfb[p].map[video_id])
         ELSE { Failed(p, video_id, timestamp, "KeyError") }

\* Mutant of LfbAfterLookup: the record is popped from the dict.
LfbAfterLookup_Pop(p, video_id) ==
    [lfb EXCEPT ![p] =
        [keys |-> SelectSeq(@.keys, LAMBDA k : k # video_id),
         map  |-> [k \in KeySet(@) \ {video_id} |-> @.map[k]]]]

\* self.lfb once video_features = self.lfb[video_id] (or the read
\* transaction of the lmdb backend) is done: a read, the dict is as before.
LfbAfterLookup(p, video_id) == lfb

Query(p, video_id, timestamp) ==
    /\ pc[p] = "ready"
    /\ last' \in QueryOutcomes(p, video_id, timestamp)
    /\ lfb' = LfbAfterLookup(p, video_id)
    /\ UNCHANGED << config, pc, err, local_lfb, todo, wtxn, store,
                    arrived, lmdb_env, ran_construct, loads >>
    /\ UNCHANGED << warned, begun >>
    /\ UNCHANGED NotLfb

\* ----------------------------------------------------------------- __getitem__
\* A str is the sequence of its characters.
ImgKeys ==
    { << "x", ",", "3" >>,
      << "x", ",", "0", "3" >>,
      << "y", ",", "-", "1" >>,
      << "y", ",", " ", "4" >>,
      << "z", ",", "3" >>,
      << "x" >>,
      << "x", "," >>,
      << "x", ",", "a" >>,
      << "x", ",", "3", ",", "4" >> }

\* The video id a str of the keys spells.
Str(chars) ==
    CASE chars = << "x" >> -> "x"
      [] chars = << "y" >> -> "y"
      [] chars = << "z" >> -> "z"

RECURSIVE Split(_)
\* str.split(','): the pieces between the commas, in order.
Split(chars) ==
    IF \A i \in 1 .. Len(chars) : chars[i] # "," THEN << chars >>
    ELSE LET i == CHOOSE i \in 1 .. Len(chars) :
                      /\ chars[i] = ","
                      /\ \A j \in 1 .. (i - 1) : chars[j] # ","
         IN  << SubSeq(chars, 1, i - 1) >>
                \o Split(SubSeq(chars, i + 1, Len(chars)))

RECURSIVE Strip(_)
\* The str without the whitespace at its ends, as int() reads it.
Strip(chars) ==
    IF chars # << >> /\ Head(chars) = " " THEN Strip(Tail(chars))
    ELSE IF chars # << >> /\ chars[Len(chars)] = " "
         THEN Strip(SubSeq(chars, 1, Len(chars) - 1))
         ELSE chars

DigitChars == << "0", "1", "2", "3", "4", "5", "6", "7", "8", "9" >>

IsDigit(c) == \E d \in 1 .. Len(DigitChars) : DigitChars[d] = c

DigitValue(c) == (CHOOSE d \in 1 .. Len(DigitChars) : DigitChars[d] = c) - 1

RECURSIVE Decimal(_)
\* The value of a non-empty run of decimal digits.
Decimal(digits) ==
    IF digits = << >> THEN 0
    ELSE Decimal(SubSeq(digits, 1, Len(digits) - 1)) * 10
           + DigitValue(digits[Len(digits)])

\* Mutant of IntOf: a leading zero is refused, as in a Python literal.
IntOf_NoLeadingZero(chars) ==
    LET t == Strip(chars)
        body == IF t # << >> /\ t[1] \in {"-", "+"} THEN Tail(t) ELSE t
    IN  IF \/ body = << >>
           \/ \E i \in 1 .. Len(body) : ~IsDigit(body[i])
           \/ (Len(body) > 1 /\ body[1] = "0")
        THEN [ok |-> FALSE, value |-> 0]
        ELSE [ok |-> TRUE,
              value |-> (IF t[1] = "-" THEN -1 ELSE 1) * Decimal(body)]

\* int(timestamp): whitespace at the ends is dropped, a sign may lead, the
\* rest must be decimal digits (leading zeros allowed); ok is FALSE where
\* int raises ValueError.
IntOf(chars) ==
    LET t == Strip(chars)
        body == IF t # << >> /\ t[1] \in {"-", "+"} THEN Tail(t) ELSE t
    IN  IF body = << >> \/ \E i \in 1 .. Len(body) : ~IsDigit(body[i])
        THEN [ok |-> FALSE, value |-> 0]
        ELSE [ok |-> TRUE,
              value |-> (IF t[1] = "-" THEN -1 ELSE 1) * Decimal(body)]

\* An exception raised in __getitem__ before sample_long_term_features is
\* called.
Raised(p, img_key, exception) ==
    [status |-> exception, op |-> "getitem", rank |-> p, video_id |-> "",
     timestamp |-> 0, img_key |-> img_key, lookups |-> 0, value |-> 0,
     draws |-> << >>, lt_feats |-> << >>]

\* video_id, timestamp = img_key.split(',') unpacks exactly two pieces and
\* int(timestamp) parses the second: both hold.
Parses(img_key) ==
    /\ Len(Split(img_key)) = 2
    /\ IntOf(Split(img_key)[2]).ok

\* Every outcome of lfb[img_key] in the process of rank p.
GetItemOutcomes(p, img_key) ==
    IF Parses(img_key)
    THEN { [o EXCEPT !.op = "getitem", !.img_key = img_key] :
             o \in QueryOutcomes(p, Str(Split(img_key)[1]),
                                 IntOf(Split(img_key)[2]).value) }
    ELSE { Raised(p, img_key, "ValueError") }

GetItem(p, img_key) ==
    /\ pc[p] = "ready"
    /\ last' \in GetItemOutcomes(p, img_key)
    /\ lfb' = IF Parses(img_key)
              THEN LfbAfterLookup(p, Str(Split(img_key)[1]))
              ELSE lfb
    /\ UNCHANGED << config, pc, err, local_lfb, todo, wtxn, store,
                    arrived, lmdb_env, ran_construct, loads >>
    /\ UNCHANGED << warned, begun >>
    /\ UNCHANGED NotLfb

\* -------------------------------------------------------------------- __len__
\* Mutant of DictLen: the sizes of the partitions are added up.
DictLen_SumOfPartitions(d) ==
    LET sizes == [i \in 1 .. Len(dataset_modes) |->
                    Len(PartitionFile(dataset_modes[i]).keys)]
    IN  IF Len(sizes) = 1 THEN sizes[1] ELSE sizes[1] + sizes[2]

\* len(d) of a dict.
DictLen(d) == Len(d.keys)

\* The outcome of len(lfb) in the process of rank p: self.lfb is set by
\* load_lfb only, so the lmdb backend has no such attribute.
LenOutcome(p) ==
    IF device \in {"gpu", "cpu"}
    THEN [NoQuery EXCEPT !.status = "len", !.op = "len", !.rank = p,
                         !.value = DictLen(lfb[p])]
    ELSE [NoQuery EXCEPT !.status = "AttributeError", !.op = "len",
                         !.rank = p]

LenCall(p) ==
    /\ pc[p] = "ready"
    /\ last' = LenOutcome(p)
    /\ UNCHANGED << config, pc, err, lfb, local_lfb, todo, wtxn, store,
                    arrived, lmdb_env, ran_construct, loads >>
    /\ UNCHANGED << warned, begun >>
    /\ UNCHANGED NotLfb

Next ==
    \/ \E p \in Procs : InitRaises(p)
    \/ \E p \in Procs : InitInMemory(p)
    \/ \E p \in Procs : InitLmdb(p)
    \/ \E p \in Procs : TxnBegin(p)
    \/ \E p \in Procs : TxnPut(p)
    \/ \E p \in Procs : TxnCommit(p)
    \/ \E p \in Procs : BarrierEnter(p)
    \/ \E p \in Procs : BarrierExit(p)
    \/ \E p \in Procs : OpenReadonly(p)
    \/ \E p \in Procs, video_id \in VideoIds, timestamp \in Timestamps :
           Query(p, video_id, timestamp)
    \/ \E p \in Procs, img_key \in ImgKeys : GetItem(p, img_key)
    \/ \E p \in Procs : LenCall(p)

Spec == Init /\ [][Next]_vars

\* The steps of __init__ alone.
ConstructionNext ==
    \/ \E p \in Procs : InitRaises(p)
    \/ \E p \in Procs : InitInMemory(p)
    \/ \E p \in Procs : InitLmdb(p)
    \/ \E p \in Procs : TxnBegin(p)
    \/ \E p \in Procs : TxnPut(p)
    \/ \E p \in Procs : TxnCommit(p)
    \/ \E p \in Procs : BarrierEnter(p)
    \/ \E p \in Procs : BarrierExit(p)
    \/ \E p \in Procs : OpenReadonly(p)

ConstructionSpec == ConstructionInit /\ [][ConstructionNext]_vars

\* A step of the process of rank p in __init__.
ConstructionStep(p) ==
    /\ p \in Procs
    /\ \/ InitRaises(p)
       \/ InitInMemory(p)
       \/ InitLmdb(p)
       \/ TxnBegin(p)
       \/ TxnPut(p)
       \/ TxnCommit(p)
       \/ BarrierEnter(p)
       \/ BarrierExit(p)
       \/ OpenReadonly(p)

\* Every process that can take a step of __init__ eventually takes one: the
\* processes run on their own devices and none waits for the scheduler.
ConstructionFairSpec ==
    ConstructionSpec
      /\ \A p \in 0 .. (MaxWorld - 1) : WF_vars(ConstructionStep(p))
\* ================================================= my_util/file.py
\* No LFB is being built.
LfbIdle ==
    /\ path_exists = FALSE
    /\ lmdb_imported = FALSE
    /\ lfb_channels = Channels
    /\ window_size = MaxWindow
    /\ max_num_sampled_feat = MaxK
    /\ dataset_modes_arg = [kind |-> "str", value |-> "train"]
    /\ dataset_modes = DatasetModes(dataset_modes_arg)
    /\ device = "gpu"
    /\ construct_lmdb = TRUE
    /\ world_size = 1
    /\ lmdb_map_size = LargeMap
    /\ Started

\* ------------------------------------------------------ pickled files
\* A file that is not there.
NoFile == [exists |-> FALSE, bytes |-> << >>]

\* The objects handed to a save: two that pickle and one that does not.
Objects ==
    { [picklable |-> TRUE, v |-> 1], [picklable |-> TRUE, v |-> 2],
      [picklable |-> FALSE, v |-> 3] }

NoObject == [picklable |-> TRUE, v |-> 0]

\* dill.dump(obj, f): the protocol opcode, the value, the STOP opcode.
Dump(obj) == << 128, obj.v, 46 >>

\* dill.load(f) of a complete pickle.
Load(bytes) == [picklable |-> TRUE, v |-> bytes[2]]

\* The bytes are a whole pickle: dill.load raises EOFError on less.
Complete(bytes) == Len(bytes) = 3 /\ bytes[1] = 128 /\ bytes[3] = 46

\* ----------------------------------------------------- safe_save_or_load
IOProcs == 1 .. MaxIO

NoReturn == [status |-> "none", value |-> NoObject]

FileInit ==
    /\ LfbIdle
    /\ CacheIdle
    /\ DatasetIdle
    /\ WrapupIdle
    /\ run_fn = FALSE
    /\ fn_file \in {NoFile, [exists |-> TRUE, bytes |-> Dump(NoObject)]}
    /\ io_mode \in [IOProcs -> {"save", "load"}]
    /\ io_obj \in { f \in [IOProcs -> Objects \cup {NoObject}] :
                     \A i \in IOProcs :
                         f[i] = NoObject <=> io_mode[i] = "load" }
    /\ io_pc = [i \in IOProcs |-> "call"]
    /\ io_ret = [i \in IOProcs |-> NoReturn]

\* os.path.exists(run_fn)
LockFound == run_fn

\* mode 'save': if os.path.exists(run_fn): warn and return (None);
\* otherwise go on to create the lock file.
SaveCheck(i) ==
    /\ io_mode[i] = "save"
    /\ io_pc[i] = "call"
    /\ IF LockFound
       THEN /\ io_pc' = [io_pc EXCEPT ![i] = "skipped"]
            /\ io_ret' = [io_ret EXCEPT ![i].status = "skipped"]
       ELSE /\ io_pc' = [io_pc EXCEPT ![i] = "touch"]
            /\ io_ret' = io_ret
    /\ UNCHANGED << run_fn, fn_file, io_mode, io_obj >>
    /\ UNCHANGED NotFile

\* subprocess.run(f"touch {run_fn}", shell=True)
Touch(i) ==
    /\ io_pc[i] = "touch"
    /\ run_fn' = TRUE
    /\ io_pc' = [io_pc EXCEPT ![i] = "op"]
    /\ UNCHANGED << fn_file, io_mode, io_obj, io_ret >>
    /\ UNCHANGED NotFile

\* op_func, a save such as save_pickle: open(fn, "wb") creates or truncates
\* the file.
SaveOpen(i) ==
    /\ io_mode[i] = "save"
    /\ io_pc[i] = "op"
    /\ fn_file' = [exists |-> TRUE, bytes |-> << >>]
    /\ io_pc' = [io_pc EXCEPT ![i] = "dump"]
    /\ UNCHANGED << run_fn, io_mode, io_obj, io_ret >>
    /\ UNCHANGED NotFile

\* The lock file once op_func has raised: the exception leaves the wrapper,
\* the rm of line 39 is not reached.
AfterRaise(lock) == lock

\* op_func goes on: dill.dump writes the pickle and the file is closed, or
\* raises on an object that cannot be pickled.
SaveDump(i) ==
    /\ io_mode[i] = "save"
    /\ io_pc[i] = "dump"
    /\ IF io_obj[i].picklable
       THEN /\ fn_file' = [exists |-> TRUE, bytes |-> Dump(io_obj[i])]
            /\ io_pc' = [io_pc EXCEPT ![i] = "rm"]
            /\ io_ret' = io_ret
            /\ run_fn' = run_fn
       ELSE /\ fn_file' = fn_file
            /\ io_pc' = [io_pc EXCEPT ![i] = "raised"]
            /\ io_ret' = [io_ret EXCEPT ![i].status = "PicklingError"]
            /\ run_fn' = AfterRaise(run_fn)
    /\ UNCHANGED << io_mode, io_obj >>
    /\ UNCHANGED NotFile

\* subprocess.run(f"rm -rf {run_fn}", shell=True); return ret (None).
Rm(i) ==
    /\ io_pc[i] = "rm"
    /\ run_fn' = FALSE
    /\ io_pc' = [io_pc EXCEPT ![i] = "returned"]
    /\ io_ret' = [io_ret EXCEPT ![i].status = "returned"]
    /\ UNCHANGED << fn_file, io_mode, io_obj >>
    /\ UNCHANGED NotFile

\* mode 'load': if os.path.exists(run_fn) enter the polling loop, otherwise
\* go on to op_func.
LoadCheck(i) ==
    /\ io_mode[i] = "load"
    /\ io_pc[i] = "call"
    /\ io_pc' = [io_pc EXCEPT ![i] = IF run_fn THEN "wait" ELSE "op"]
    /\ UNCHANGED << run_fn, fn_file, io_mode, io_obj, io_ret >>
    /\ UNCHANGED NotFile

\* while os.path.exists(run_fn): time.sleep(1) -- the test that finds the
\* lock file gone ends the loop.
LoadWait(i) ==
    /\ io_pc[i] = "wait"
    /\ ~run_fn
    /\ io_pc' = [io_pc EXCEPT ![i] = "op"]
    /\ UNCHANGED << run_fn, fn_file, io_mode, io_obj, io_ret >>
    /\ UNCHANGED NotFile

\* op_func, a load such as load_pickle: open(fn, "rb").
LoadOpen(i) ==
    /\ io_mode[i] = "load"
    /\ io_pc[i] = "op"
    /\ IF fn_file.exists
       THEN /\ io_pc' = [io_pc EXCEPT ![i] = "read"]
            /\ io_ret' = io_ret
       ELSE /\ io_pc' = [io_pc EXCEPT ![i] = "raised"]
            /\ io_ret' = [io_ret EXCEPT ![i].status = "FileNotFoundError"]
    /\ UNCHANGED << run_fn, fn_file, io_mode, io_obj >>
    /\ UNCHANGED NotFile

\* op_func goes on: dill.load(f) and return.
LoadRead(i) ==
    /\ io_mode[i] = "load"
    /\ io_pc[i] = "read"
    /\ IF Complete(fn_file.bytes)
       THEN /\ io_pc' = [io_pc EXCEPT ![i] = "returned"]
            /\ io_ret' = [io_ret EXCEPT ![i] =
                            [status |-> "returned",
                             value |-> Load(fn_file.bytes)]]
       ELSE /\ io_pc' = [io_pc EXCEPT ![i] = "raised"]
            /\ io_ret' = [io_ret EXCEPT ![i].status = "EOFError"]
    /\ UNCHANGED << run_fn, fn_file, io_mode, io_obj >>
    /\ UNCHANGED NotFile

FileNext ==
    \/ \E i \in IOProcs : SaveCheck(i)
    \/ \E i \in IOProcs : Touch(i)
    \/ \E i \in IOProcs : SaveOpen(i)
    \/ \E i \in IOProcs : SaveDump(i)
    \/ \E i \in IOProcs : Rm(i)
    \/ \E i \in IOProcs : LoadCheck(i)
    \/ \E i \in IOProcs : LoadWait(i)
    \/ \E i \in IOProcs : LoadOpen(i)
    \/ \E i \in IOProcs : LoadRead(i)

allvars == << vars, fvars, cvars, dvars, wvars >>

FileSpec == FileInit /\ [][FileNext]_allvars

\* A step of the call of process i.
IOStep(i) ==
    \/ SaveCheck(i)
    \/ Touch(i)
    \/ SaveOpen(i)
    \/ SaveDump(i)
    \/ Rm(i)
    \/ LoadCheck(i)
    \/ LoadWait(i)
    \/ LoadOpen(i)
    \/ LoadRead(i)

\* Every process that can go on with its call eventually does.
FileFairSpec ==
    FileSpec /\ \A i \in IOProcs : WF_allvars(IOStep(i))

\* ------------------------------------------------------------ run_or_load
NoCall ==
    [status |-> "none", overwrite |-> FALSE, cache |-> FALSE,
     before |-> NoFile, called |-> FALSE, value |-> NoObject]

\* What func(**args) can return: the objects that pickle.
FuncResults == { o \in Objects : o.picklable }

CacheInit ==
    /\ LfbIdle
    /\ FileIdle
    /\ DatasetIdle
    /\ WrapupIdle
    /\ cache_file \in {NoFile, [exists |-> TRUE, bytes |-> Dump(NoObject)]}
    /\ func_calls = 0
    /\ rol = NoCall

\* save_pickle(obj, file_path): the file holds the pickle of obj.
SavePickle(obj) == [exists |-> TRUE, bytes |-> Dump(obj)]

\* run_or_load(func, file_path, cache, overwrite, args), the whole call.
\* In the else branch load_pickle is given `obj`, a local that has no value
\* yet: evaluating the argument raises UnboundLocalError.
RunOrLoad(cache, overwrite, result) ==
    /\ IF overwrite \/ ~cache_file.exists
       THEN /\ func_calls < MaxCalls
            /\ func_calls' = func_calls + 1
            /\ cache_file' = IF cache THEN SavePickle(result) ELSE cache_file
            /\ rol' = [status |-> "returned", overwrite |-> overwrite,
                       cache |-> cache, before |-> cache_file,
                       called |-> TRUE, value |-> result]
       ELSE /\ rol' = [status |-> "UnboundLocalError",
                       overwrite |-> overwrite, cache |-> cache,
                       before |-> cache_file, called |-> FALSE,
                       value |-> NoObject]
            /\ UNCHANGED << cache_file, func_calls >>
    /\ UNCHANGED NotCache

CacheNext ==
    \E cache \in BOOLEAN, overwrite \in BOOLEAN, result \in FuncResults :
        RunOrLoad(cache, overwrite, result)

CacheSpec == CacheInit /\ [][CacheNext]_allvars

\* ============================================ datasets/lsmdc_choice.py
\* self.metadata[i]: the dict _load_metadata built from row i of the csv.
Metadata(i) == [vid_id |-> 100 + i, answer |-> i % 5]

\* No value yet: a local read in this state raises UnboundLocalError.
Unbound == << >>

NoItem ==
    [status |-> "none", image |-> 0, img_index |-> 0, cap_index |-> 0,
     raw_index |-> 0, answer |-> 0]

\* __getitem__(index) is called on a dataset of metadata_len samples, some
\* of whose videos cannot be read; index is a position or past the end.
DatasetInit ==
    /\ LfbIdle
    /\ FileIdle
    /\ CacheIdle
    /\ WrapupIdle
    /\ metadata_len \in 1 .. MaxLen
    /\ unreadable \in SUBSET (0 .. (metadata_len - 1))
    /\ index \in 0 .. metadata_len
    /\ sample = Unbound
    /\ ds_pc = "try"
    /\ ds_exc = ""
    /\ ds_ret = NoItem

\* The tensor get_video returns for a sample.
Video(s) == s.vid_id * 2

\* One pass through the try block: sample = self.metadata[index] raises
\* IndexError past the end, get_video raises on a video it cannot read,
\* otherwise ret is built and the loop ends.
Try ==
    /\ ds_pc = "try"
    /\ IF index >= metadata_len
       THEN /\ ds_pc' = "except"
            /\ ds_exc' = "IndexError"
            /\ UNCHANGED << sample, ds_ret >>
       ELSE /\ sample' = << index >>
            /\ IF index \in unreadable
               THEN /\ ds_pc' = "except"
                    /\ ds_exc' = "IOError"
                    /\ ds_ret' = ds_ret
               ELSE /\ ds_pc' = "returned"
                    /\ ds_exc' = ds_exc
                    /\ ds_ret' = [status |-> "returned",
                                  image |-> Video(Metadata(index)),
                                  img_index |-> index,
                                  cap_index |-> index,
                                  raw_index |-> index,
                                  answer |-> Metadata(index).answer]
    /\ UNCHANGED << metadata_len, unreadable, index >>
    /\ UNCHANGED NotDataset

\* The except clause: the print reads sample['vid_id'], which raises
\* UnboundLocalError out of __getitem__ when sample was never assigned;
\* otherwise index = random.randint(0, len(self.metadata) - 1) and the loop
\* goes round.
Except ==
    /\ ds_pc = "except"
    /\ IF sample = Unbound
       THEN /\ ds_pc' = "raised"
            /\ ds_ret' = [ds_ret EXCEPT !.status = "UnboundLocalError"]
            /\ index' = index
       ELSE /\ ds_pc' = "try"
            /\ ds_ret' = ds_ret
            /\ index' \in 0 .. (metadata_len - 1)
    /\ ds_exc' = ""
    /\ UNCHANGED << metadata_len, unreadable, sample >>
    /\ UNCHANGED NotDataset

DatasetNext ==
    \/ Try
    \/ Except

DatasetSpec == DatasetInit /\ [][DatasetNext]_allvars

\* ================================================== modules/objectives.py
\* vqa_test_wrapup and arc_test_wrapup: the same steps on files named
\* vqa_submit_{rank}.json or coco_cap_len{caplen}_{rank}.json; arc sorts the
\* merged records by image_id.
Ranks == 0 .. (ranks - 1)

\* The numbers n for which the glob pattern's file of number n may exist:
\* those of the ranks and one more, left by a larger job.
FileNumbers == 0 .. MaxRanks

\* The k-th record of a rank: its id (question_id or image_id) and its
\* answer or caption.
Rec(rank, k) == [id |-> 10 * ((rank + 1) % 3) + k, value |-> k]

\* A record of an earlier job over other data.
StaleRec == [id |-> 5, value |-> 0]

\* What a file left by an earlier job can hold: records of other data, or
\* of the same data and model, split over more ranks, and so a record that
\* rank 0 holds now.
StaleContents == { << StaleRec >>, << Rec(0, 1) >> }

\* A file opened for writing and not written yet.
Truncated == [text |-> "", items |-> << >>]

\* json.dump(rets, fp, indent=4): the text of a list of the records.
JsonDump(rets) == [text |-> "list", items |-> rets]

\* json.load(fp) of a text json.dump wrote.
JsonLoad(bytes) == bytes.items

WrapupInit ==
    /\ LfbIdle
    /\ FileIdle
    /\ CacheIdle
    /\ DatasetIdle
    /\ wrapup \in {"vqa", "arc"}
    /\ ranks \in {1, MaxRanks}
    /\ outs \in [Ranks -> { << >> }]
                  \cup { [r \in Ranks |-> [k \in 1 .. n |-> Rec(r, k)]] :
                           n \in 1 .. 2 }
    /\ \E stale \in {{}, {0}, {ranks}}, left \in StaleContents :
           submit = [n \in FileNumbers |->
                       IF n \in stale
                       THEN [exists |-> TRUE, bytes |-> JsonDump(left)]
                       ELSE [exists |-> FALSE, bytes |-> Truncated]]
    /\ result_file = [exists |-> FALSE, bytes |-> Truncated]
    /\ paths = << >>
    /\ jsons = << >>
    /\ w_pc = [r \in Ranks |-> "open"]
    /\ w_err = [r \in Ranks |-> ""]
    /\ arrived1 = {}
    /\ arrived2 = {}

\* with open(f"vqa_submit_{rank}.json", "w") as fp: the file is created or
\* truncated.
SubmitOpen(r) ==
    /\ w_pc[r] = "open"
    /\ submit' = [submit EXCEPT ![r] = [exists |-> TRUE, bytes |-> Truncated]]
    /\ w_pc' = [w_pc EXCEPT ![r] = "dump"]
    /\ UNCHANGED << wrapup, ranks, outs, result_file, paths, jsons, w_err,
                    arrived1, arrived2 >>
    /\ UNCHANGED NotWrapup

\* json.dump(rets, fp, indent=4) and the end of the with block.
SubmitDump(r) ==
    /\ w_pc[r] = "dump"
    /\ submit' = [submit EXCEPT ![r].bytes = JsonDump(outs[r])]
    /\ w_pc' = [w_pc EXCEPT ![r] = "barrier1"]
    /\ UNCHANGED << wrapup, ranks, outs, result_file, paths, jsons, w_err,
                    arrived1, arrived2 >>
    /\ UNCHANGED NotWrapup

\* The first torch.distributed.barrier(): the rank enters.
Barrier1Enter(r) ==
    /\ w_pc[r] = "barrier1"
    /\ arrived1' = arrived1 \cup {r}
    /\ w_pc' = [w_pc EXCEPT ![r] = "in_barrier1"]
    /\ UNCHANGED << wrapup, ranks, outs, submit, result_file, paths, jsons,
                    w_err, arrived2 >>
    /\ UNCHANGED NotWrapup

\* The barrier returns once every rank has entered it.
Barrier1Released == arrived1 = Ranks

\* The rank leaves the first barrier: rank 0 goes on to merge, the others
\* to the second barrier.
Barrier1Exit(r) ==
    /\ w_pc[r] = "in_barrier1"
    /\ Barrier1Released
    /\ w_pc' = [w_pc EXCEPT ![r] = IF r = 0 THEN "glob" ELSE "barrier2"]
    /\ UNCHANGED << wrapup, ranks, outs, submit, result_file, paths, jsons,
                    w_err, arrived1, arrived2 >>
    /\ UNCHANGED NotWrapup

\* The orders in which glob.glob can list the files of S.
Listings(S) ==
    LET base == AsSeq(S)
    IN  { [i \in 1 .. Len(base) |-> base[perm[i] + 1]] :
            perm \in Permutation(Len(base)) }

\* jsons = list(); paths = list(glob.glob("vqa_submit_*.json")): every file
\* of the pattern that is there, in the order the directory gives them.
Glob ==
    /\ w_pc[0] = "glob"
    /\ paths' \in Listings({ n \in FileNumbers : submit[n].exists })
    /\ jsons' = << >>
    /\ w_pc' = [w_pc EXCEPT ![0] = IF paths' = << >> THEN "write" ELSE "read"]
    /\ UNCHANGED << wrapup, ranks, outs, submit, result_file, w_err,
                    arrived1, arrived2 >>
    /\ UNCHANGED NotWrapup

\* One turn of the loop over paths: open(path, "r") and
\* jsons += json.load(fp).
ReadPath ==
    /\ w_pc[0] = "read"
    /\ LET file == submit[Head(paths)]
       IN  IF ~file.exists \/ file.bytes = Truncated
           THEN /\ w_pc' = [w_pc EXCEPT ![0] = "failed"]
                /\ w_err' = [w_err EXCEPT ![0] =
                                IF file.exists THEN "JSONDecodeError"
                                ELSE "FileNotFoundError"]
                /\ UNCHANGED << paths, jsons >>
           ELSE /\ jsons' = jsons \o JsonLoad(file.bytes)
                /\ paths' = Tail(paths)
                /\ w_pc' = [w_pc EXCEPT ![0] =
                               IF Tail(paths) = << >> THEN "write"
                               ELSE "read"]
                /\ w_err' = w_err
    /\ UNCHANGED << wrapup, ranks, outs, submit, result_file, arrived1,
                    arrived2 >>
    /\ UNCHANGED NotWrapup

RECURSIVE InsertById(_, _)
\* x put after the records of the sorted list whose id is not larger.
InsertById(sorted, x) ==
    IF sorted = << >> THEN << x >>
    ELSE IF Head(sorted).id <= x.id
         THEN << Head(sorted) >> \o InsertById(Tail(sorted), x)
         ELSE << x >> \o sorted

RECURSIVE SortById(_)
\* sorted(jsons, key=lambda x: x["image_id"]), a stable sort.
SortById(seq) ==
    IF seq = << >> THEN << >>
    ELSE InsertById(SortById(SubSeq(seq, 1, Len(seq) - 1)), seq[Len(seq)])

\* os.makedirs("result", exist_ok=True) and the dump of jsons (sorted by
\* image_id in arc_test_wrapup) into the merged file.
WriteResult ==
    /\ w_pc[0] = "write"
    /\ result_file' =
           [exists |-> TRUE,
            bytes |-> JsonDump(IF wrapup = "arc" THEN SortById(jsons)
                               ELSE jsons)]
    /\ w_pc' = [w_pc EXCEPT ![0] = "barrier2"]
    /\ UNCHANGED << wrapup, ranks, outs, submit, paths, jsons, w_err,
                    arrived1, arrived2 >>
    /\ UNCHANGED NotWrapup

\* The second torch.distributed.barrier(): the rank enters.
Barrier2Enter(r) ==
    /\ w_pc[r] = "barrier2"
    /\ arrived2' = arrived2 \cup {r}
    /\ w_pc' = [w_pc EXCEPT ![r] = "in_barrier2"]
    /\ UNCHANGED << wrapup, ranks, outs, submit, result_file, paths, jsons,
                    w_err, arrived1 >>
    /\ UNCHANGED NotWrapup

Barrier2Released == arrived2 = Ranks

Barrier2Exit(r) ==
    /\ w_pc[r] = "in_barrier2"
    /\ Barrier2Released
    /\ w_pc' = [w_pc EXCEPT ![r] = "remove"]
    /\ UNCHANGED << wrapup, ranks, outs, submit, result_file, paths, jsons,
                    w_err, arrived1, arrived2 >>
    /\ UNCHANGED NotWrapup

\* os.remove(f"vqa_submit_{rank}.json")
Remove(r) ==
    /\ w_pc[r] = "remove"
    /\ submit' = [submit EXCEPT ![r] = [exists |-> FALSE,
                                         bytes |-> Truncated]]
    /\ w_pc' = [w_pc EXCEPT ![r] = "done"]
    /\ UNCHANGED << wrapup, ranks, outs, result_file, paths, jsons, w_err,
                    arrived1, arrived2 >>
    /\ UNCHANGED NotWrapup

WrapupNext ==
    \/ \E r \in Ranks : SubmitOpen(r)
    \/ \E r \in Ranks : SubmitDump(r)
    \/ \E r \in Ranks : Barrier1Enter(r)
    \/ \E r \in Ranks : Barrier1Exit(r)
    \/ Glob
    \/ ReadPath
    \/ WriteResult
    \/ \E r \in Ranks : Barrier2Enter(r)
    \/ \E r \in Ranks : Barrier2Exit(r)
    \/ \E r \in Ranks : Remove(r)

WrapupSpec == WrapupInit /\ [][WrapupNext]_allvars

\* ==================================================================== claims
WriteStates == {"txn_begin", "txn_put", "txn_commit"}

\* The process of rank p is inside load_lfb_on_lmdb's write loop.
Writing(p) == pc[p] \in WriteStates \/ wtxn[p].open

\* The process of rank p has returned from load_lfb_on_lmdb.
Constructed(p) ==
    /\ p \in ran_construct
    /\ pc[p] \in {"barrier", "in_barrier", "open", "ready"}

\* Every entry of the bank d is in the store, as d's record serialized.
Committed(d) ==
    \A e \in KeySet(d) :
        /\ Encode(e) \in DOMAIN store.kv
        /\ store.kv[Encode(e)] = TorchSave(d.map[e])

\* The process of rank p holds the read-only handle or has served a query.
Reading(p) == lmdb_env[p] \/ (last.status # "none" /\ last.rank = p)

\* C1: with the lmdb backend and world_size > 1, a process holds its
\* read-only handle or has served a query only when every process has
\* entered the barrier and, if the store is constructed, rank 0 has returned
\* from load_lfb_on_lmdb with every entry of the merged bank committed.
C1_ReadAfterConstruction ==
    (device = "lmdb" /\ world_size > 1) =>
        \A p \in Procs :
            Reading(p) =>
                /\ arrived = Procs
                /\ construct_lmdb =>
                       /\ Constructed(0)
                       /\ ~Writing(0)
                       /\ todo[0] = << >>
                       /\ local_lfb[0] = Merge(EmptyDict, dataset_modes)
                       /\ Committed(local_lfb[0])

C1_Witness ==
    /\ device = "lmdb"
    /\ world_size > 1
    /\ construct_lmdb
    /\ Cardinality(KeySet(local_lfb[0])) = 2
    /\ \A p \in Procs : lmdb_env[p]
    /\ last.status = "ok"
    /\ last.rank = 1

\* C2: with the lmdb backend, load_lfb_on_lmdb has run in a process that has
\* left the start of __init__ exactly if its rank is 0 and construct_lmdb is
\* true, and only such a process is ever in the write loop; with
\* construct_lmdb false no step changes the store, and every process that
\* has finished __init__ has called lmdb.open(readonly=True), whatever its
\* rank.
C2_State ==
    (device = "lmdb" /\ path_exists /\ lmdb_imported) =>
        /\ \A p \in Procs :
               /\ p \in ran_construct <=>
                      (pc[p] # "init" /\ p = 0 /\ construct_lmdb)
               /\ Writing(p) => (p = 0 /\ construct_lmdb)
        /\ ~construct_lmdb =>
               \A p \in Procs :
                   /\ pc[p] = "ready" => lmdb_env[p]
                   /\ pc[p] = "failed" => err[p] = "lmdb.Error"

C2_SingleConstructor ==
    /\ [] C2_State
    /\ [][(device = "lmdb" /\ ~construct_lmdb) => store' = store]_vars

C2_Witness ==
    /\ device = "lmdb"
    /\ ~construct_lmdb
    /\ world_size > 1
    /\ ran_construct = {}
    /\ \A p \in Procs : lmdb_env[p]

\* C3: whenever some process holds a read-only handle, no process has a
\* write transaction open or is in the write loop of load_lfb_on_lmdb.
C3_NoWriterWhileReading ==
    (\E p \in Procs : lmdb_env[p]) => \A q \in Procs : ~Writing(q)

C3_Witness ==
    /\ \E p \in Procs : lmdb_env[p]
    /\ construct_lmdb
    /\ world_size > 1
    /\ Constructed(0)
    /\ DOMAIN store.kv # {}
\* ------------------------------------------------------- claims on a query
\* The FeatureRecord the backend of the last query's process holds for the
\* queried video.
Queried ==
    IF device = "lmdb"
    THEN TorchLoad(store.kv[Encode(last.video_id)])
    ELSE lfb[last.rank].map[last.video_id]

\* The first second of the last query's window, and the seconds of it.
WindowStart == last.timestamp - (window_size \div 2)

Window == WindowStart .. (WindowStart + window_size - 1)

AllRows == 0 .. (window_size * max_num_sampled_feat - 1)

ZeroRow == [c \in 1 .. lfb_channels |-> 0]

\* The rows of the slot group of window offset idx.
SlotGroup(idx) ==
    (idx * max_num_sampled_feat) .. (idx * max_num_sampled_feat
                                       + max_num_sampled_feat - 1)

\* The rows of the returned block that were assigned from second sec.
RowsFrom(sec) ==
    { r \in DOMAIN last.lt_feats.from :
        /\ last.lt_feats.from[r] # NotAssigned
        /\ last.lt_feats.from[r][1] = sec }

\* C4: a query whose record has no key in the window returns a block of
\* exactly window_size * max_num_sampled_feat rows of lfb_channels columns,
\* every entry zero.
C4_ZeroFill ==
    (last.status = "ok" /\ Window \cap DOMAIN Queried = {}) =>
        /\ DOMAIN last.lt_feats.rows = AllRows
        /\ \A r \in AllRows :
               /\ DOMAIN last.lt_feats.rows[r] = 1 .. lfb_channels
               /\ \A c \in 1 .. lfb_channels : last.lt_feats.rows[r][c] = 0

\* An empty window below second 0, on a record that does have features.
C4_Witness ==
    /\ last.status = "ok"
    /\ last.video_id = "x"
    /\ WindowStart < 0
    /\ Window \cap DOMAIN Queried = {}
    /\ DOMAIN Queried # {}

\* C5: for every second of the window with f recorded features, exactly
\* min(f, K) rows are assigned from it, never more than K, all of them in
\* that second's slot group; when the second's vectors are all non-zero,
\* these are the non-zero rows of the slot group.
C5_CardinalityBound ==
    last.status = "ok" =>
        \A idx \in 0 .. (window_size - 1) :
            LET sec == WindowStart + idx
            IN  sec \in DOMAIN Queried =>
                    LET f == Len(Queried[sec])
                        n == IF f < max_num_sampled_feat
                             THEN f ELSE max_num_sampled_feat
                    IN  /\ Cardinality(RowsFrom(sec)) = n
                        /\ Cardinality(RowsFrom(sec)) <= max_num_sampled_feat
                        /\ RowsFrom(sec) \subseteq SlotGroup(idx)
                        /\ (\A i \in 1 .. f : Queried[sec][i] # ZeroRow) =>
                               { r \in SlotGroup(idx) :
                                   last.lt_feats.rows[r] # ZeroRow }
                                 = RowsFrom(sec)

\* A second with more features than K: only K of them are sampled.
C5_Witness ==
    /\ last.status = "ok"
    /\ max_num_sampled_feat = 2
    /\ \E sec \in Window \cap DOMAIN Queried :
           /\ Len(Queried[sec]) > max_num_sampled_feat
           /\ Cardinality(RowsFrom(sec)) = max_num_sampled_feat
    /\ last.video_id = "x"

\* C6: the indices drawn for one second are pairwise distinct and lie in
\* 0 .. f-1, and no feature of the record is the source of two rows.
C6_NoDuplicateDraws ==
    last.status = "ok" =>
        /\ \A idx \in 0 .. (window_size - 1) :
               LET sec == WindowStart + idx
                   drawn == last.draws[idx + 1]
               IN  sec \in DOMAIN Queried =>
                       /\ \A i \in 1 .. Len(drawn) :
                              drawn[i] \in 0 .. (Len(Queried[sec]) - 1)
                       /\ \A i, j \in 1 .. Len(drawn) :
                              i # j => drawn[i] # drawn[j]
        /\ \A r1, r2 \in AllRows :
               (/\ r1 # r2
                /\ last.lt_feats.from[r1] # NotAssigned)
                   => last.lt_feats.from[r1] # last.lt_feats.from[r2]

C6_Witness ==
    /\ last.status = "ok"
    /\ \E idx \in 1 .. window_size :
           /\ Len(last.draws[idx]) = 2
           /\ last.draws[idx][1] > last.draws[idx][2]

\* C7: for every offset i of the window, with n = min(count, K) features
\* sampled at second start + i, rows i*K .. i*K+n-1 hold the drawn vectors
\* in draw order and rows i*K+n .. i*K+K-1 are zero; the rows of a second
\* absent from the record are zero.
C7_RowLayout ==
    last.status = "ok" =>
        \A i \in 0 .. (window_size - 1) :
            LET sec == WindowStart + i
                K == max_num_sampled_feat
            IN  IF sec \in DOMAIN Queried
                THEN LET count == Len(Queried[sec])
                         n == IF count < K THEN count ELSE K
                     IN  /\ Len(last.draws[i + 1]) = n
                         /\ \A j \in 0 .. (n - 1) :
                                last.lt_feats.rows[i * K + j]
                                  = Queried[sec][last.draws[i + 1][j + 1] + 1]
                         /\ \A j \in n .. (K - 1) :
                                last.lt_feats.rows[i * K + j] = ZeroRow
                ELSE \A j \in 0 .. (K - 1) :
                         last.lt_feats.rows[i * K + j] = ZeroRow

\* The scenario of window 4, K 2, two vectors at one second and one at the
\* next, queried at the later second: rows 0-1 zero, rows 2-3 the two
\* vectors (here the second one first), row 4 the single vector, rows 5-7
\* zero.
C7_Witness ==
    /\ last.status = "ok"
    /\ window_size = 4
    /\ max_num_sampled_feat = 2
    /\ last.video_id = "x"
    /\ last.timestamp = 3
    /\ Queried = RecA
    /\ last.lt_feats.rows =
           [r \in 0 .. 7 |->
              CASE r = 2 -> Vec(2)
                [] r = 3 -> Vec(1)
                [] r = 4 -> Vec(9)
                [] OTHER -> Vec(0)]
\* ------------------------------------------------ claims on the merged bank
\* The positions in dataset_modes of the partitions that define entity e.
Defining(e) ==
    { i \in 1 .. Len(dataset_modes) :
        e \in KeySet(PartitionFile(dataset_modes[i])) }

Last(I) == CHOOSE i \in I : \A j \in I : j <= i

\* The record of e in the last partition of dataset_modes that defines it.
LastRecord(e) == PartitionFile(dataset_modes[Last(Defining(e))]).map[e]

\* The dict d holds, for every entity, the record of the last partition
\* that defines it, and nothing else.
LastWins(d) ==
    \A e \in VideoIds :
        IF Defining(e) = {} THEN ~Has(d, e)
        ELSE Has(d, e) /\ d.map[e] = LastRecord(e)

\* C8: the bank load_lfb leaves in self.lfb, the bank load_lfb_on_lmdb
\* merges, and the records it leaves in the store, map every entity to the
\* whole record of the last partition of dataset_modes that defines it.
C8_MergePrecedence ==
    \A p \in Procs :
        /\ (device \in {"gpu", "cpu"} /\ pc[p] = "ready") => LastWins(lfb[p])
        /\ Constructed(p) =>
               /\ LastWins(local_lfb[p])
               /\ \A e \in VideoIds :
                      Defining(e) # {} =>
                          /\ Encode(e) \in DOMAIN store.kv
                          /\ TorchLoad(store.kv[Encode(e)]) = LastRecord(e)

\* Partitions [val, train] both define x: the store holds train's record.
C8_Witness ==
    /\ device = "lmdb"
    /\ Constructed(0)
    /\ dataset_modes = << "val", "train" >>
    /\ TorchLoad(store.kv[Encode("x")]) = RecA
    /\ TorchLoad(store.kv[Encode("y")]) = RecC

\* C9: every query returns what the in-memory backends return for the same
\* partitions and the same draws -- the block sampled from the merged bank's
\* record, or a failure when the merged bank has no such entity.  The lmdb
\* backend is taken with the store constructed by the job from these
\* partitions.
C9_BackendEquivalence ==
    (last.status # "none" /\ (device = "lmdb" => construct_lmdb)) =>
        LET bank == Merge(EmptyDict, dataset_modes)
        IN  IF Has(bank, last.video_id)
            THEN /\ last.status = "ok"
                 /\ last.lt_feats.rows =
                        Sample(bank.map[last.video_id], last.timestamp,
                               last.draws).rows
            ELSE last.status # "ok"

Range(seq) == { seq[i] : i \in 1 .. Len(seq) }

\* C10: for every entity whose entry load_lfb_on_lmdb has committed, reading
\* the entity's key from the store and deserializing gives the record that
\* was serialized: the same seconds, the same vectors in the same order.
C10_RoundTrip ==
    \A p \in ran_construct :
        pc[p] # "failed" =>
            \A e \in KeySet(local_lfb[p]) \ Range(todo[p]) :
                LET buf == BytesIOGet(store.kv, Encode(e))
                IN  /\ buf # << >>
                    /\ DOMAIN TorchLoad(buf) = DOMAIN local_lfb[p].map[e]
                    /\ \A sec \in DOMAIN local_lfb[p].map[e] :
                           TorchLoad(buf)[sec] = local_lfb[p].map[e][sec]

\* Both entities committed, one record with an empty second and a zero
\* vector, the other with three vectors at one second.
C10_Witness ==
    /\ Constructed(0)
    /\ todo[0] = << >>
    /\ KeySet(local_lfb[0]) = {"x", "y"}
    /\ local_lfb[0].map["x"] = RecB
    /\ local_lfb[0].map["y"] = RecC
    /\ TorchLoad(BytesIOGet(store.kv, Encode("x")))[2]
           = << Vec(3), Vec(4), Vec(5) >>

\* ------------------------------------------------ claims on failing calls
\* The last call reached the backend's lookup of an entity.
LookedUp == last.op \in {"sample", "getitem"} /\ last.lookups = 1

\* The backend of the last call's process has an entry for the entity.
Present ==
    IF device = "lmdb"
    THEN Encode(last.video_id) \in DOMAIN store.kv
    ELSE last.video_id \in KeySet(lfb[last.rank])

\* Python's LookupError and its subclasses.
LookupErrors == {"LookupError", "KeyError", "IndexError"}

\* C11: a query for an entity the backend has no entry for fails with a
\* lookup error and returns no block, on the in-memory backends and on the
\* lmdb backend alike.
C11_AbsentLookupError ==
    (LookedUp /\ ~Present) =>
        /\ last.status \in LookupErrors
        /\ last.lt_feats = << >>

\* What each well-formed key of ImgKeys means: the entity and the integer.
KeyMeaning ==
    (<< "x", ",", "3" >> :> << "x", 3 >>)
      @@ (<< "x", ",", "0", "3" >> :> << "x", 3 >>)
      @@ (<< "y", ",", "-", "1" >> :> << "y", 0 - 1 >>)
      @@ (<< "y", ",", " ", "4" >> :> << "y", 4 >>)
      @@ (<< "z", ",", "3" >> :> << "z", 3 >>)

\* The keys with no separator, an empty or non-integer timestamp segment,
\* or two separators.
MalformedKeys ==
    { << "x" >>, << "x", "," >>, << "x", ",", "a" >>,
      << "x", ",", "3", ",", "4" >> }

\* The last outcome as sample_long_term_features would report it.
AsSample(o) == [o EXCEPT !.op = "sample", !.img_key = << >>]

\* C12: lfb['<entity_id>,<timestamp>'] returns what
\* sample_long_term_features(entity_id, int(timestamp)) returns (a
\* zero-padded timestamp is read in decimal), and every result of the
\* latter is a result of the former; a key with no separator, with two
\* separators or with a non-integer timestamp segment fails with ValueError
\* before any lookup or sampling.
C12_CombinedKey ==
    /\ (last.op = "getitem" /\ last.img_key \in DOMAIN KeyMeaning) =>
           LET m == KeyMeaning[last.img_key]
           IN  /\ last.video_id = m[1]
               /\ last.timestamp = m[2]
               /\ AsSample(last) \in QueryOutcomes(last.rank, m[1], m[2])
               /\ \A o \in QueryOutcomes(last.rank, m[1], m[2]) :
                      [o EXCEPT !.op = "getitem",
                                !.img_key = last.img_key]
                          \in GetItemOutcomes(last.rank, last.img_key)
    /\ (last.op = "getitem" /\ last.img_key \in MalformedKeys) =>
           /\ last.status = "ValueError"
           /\ last.lookups = 0
           /\ last.draws = << >>
           /\ last.lt_feats = << >>

\* A zero-padded key has returned a block with a row taken from the record.
C12_Witness ==
    /\ last.op = "getitem"
    /\ last.img_key = << "x", ",", "0", "3" >>
    /\ last.status = "ok"
    /\ last.timestamp = 3
    /\ \E r \in DOMAIN last.lt_feats.from :
           last.lt_feats.from[r] # NotAssigned

\* ------------------------------------------------- claims on construction
\* Nothing of the construction has happened in the process of rank p: no
\* partition file read, no write transaction, no barrier, no handle.
Untouched(p) ==
    /\ loads[p] = 0
    /\ lfb[p] = EmptyDict
    /\ local_lfb[p] = EmptyDict
    /\ ~wtxn[p].open
    /\ p \notin ran_construct
    /\ p \notin arrived
    /\ ~lmdb_env[p]

\* C13: construction fails with ValueError when lfb_prefix_path does not
\* exist (whatever the other arguments are) or when device is not 'gpu',
\* 'cpu' or 'lmdb'; in both cases no partition file is loaded, the store is
\* not written and no barrier is entered.
C13_ConfigurationError ==
    \A p \in Procs :
        /\ (pc[p] # "init" /\ ~path_exists) =>
               (pc[p] = "failed" /\ err[p] = "ValueError: path")
        /\ (pc[p] # "init" /\ path_exists
              /\ device \notin {"gpu", "cpu", "lmdb"}) =>
               (pc[p] = "failed" /\ err[p] = "ValueError: device")
        /\ (~path_exists \/ device \notin {"gpu", "cpu", "lmdb"}) =>
               (Untouched(p) /\ store = NoStore)

\* The directory is missing and the device is unknown too: the directory's
\* error is the one raised.
C13_Witness ==
    /\ ~path_exists
    /\ device = "tpu"
    /\ pc[0] = "failed"
    /\ err[0] = "ValueError: path"

\* C14: with device 'lmdb' (and an existing lfb_prefix_path) and lmdb not
\* importable, construction fails with the assertion of line 106 before
\* anything is constructed, any barrier entered or any handle opened; with
\* 'gpu' or 'cpu' the missing lmdb makes no difference: construction ends
\* as the partition files alone decide.
C14_DependencyError ==
    (path_exists /\ ~lmdb_imported) =>
        \A p \in Procs :
            /\ device = "lmdb" =>
                   /\ Untouched(p)
                   /\ store = NoStore
                   /\ pc[p] \in {"init", "failed"}
                   /\ pc[p] = "failed" => err[p] = "AssertionError"
            /\ (device \in {"gpu", "cpu"} /\ pc[p] # "init") =>
                   /\ err[p] # "AssertionError"
                   /\ pc[p] = "ready"
                        <=> \A i \in 1 .. Len(dataset_modes) :
                                dataset_modes[i] \in {"train", "val"}

\* A job of several processes asked for lmdb without the library: one has
\* failed on the assertion.
C14_Witness ==
    /\ device = "lmdb"
    /\ path_exists
    /\ ~lmdb_imported
    /\ world_size > 1
    /\ pc[1] = "failed"
    /\ err[1] = "AssertionError"

\* --------------------------------------------------- claims on the object
\* The entities some partition of dataset_modes defines.
Entities ==
    UNION { KeySet(PartitionFile(dataset_modes[i])) :
              i \in 1 .. Len(dataset_modes) }

\* C15: on the gpu and cpu backends len(lfb) returns the number of distinct
\* entities of the partitions of dataset_modes, an entity of two partitions
\* counted once; whenever it is called, before or after any queries, the
\* value is this one.
C15_Size ==
    (last.op = "len" /\ device \in {"gpu", "cpu"}) =>
        /\ last.status = "len"
        /\ last.value = Cardinality(Entities)

\* Partitions val and train share entity x: two entities, not three.
C15_Witness ==
    /\ last.op = "len"
    /\ last.status = "len"
    /\ Len(dataset_modes) = 2
    /\ last.value = 2
    /\ \A i \in 1 .. 2 : "x" \in KeySet(PartitionFile(dataset_modes[i]))

\* C16: a call of sample_long_term_features, __getitem__ or __len__ (the
\* steps that leave every process where it is), whether it returns or
\* raises, changes neither the merged bank, nor the store, nor window_size,
\* max_num_sampled_feat, lfb_channels or any other option: the block goes
\* to the caller only.
C16_ReadOnly ==
    [][ pc' = pc =>
          /\ lfb' = lfb
          /\ local_lfb' = local_lfb
          /\ store' = store
          /\ lmdb_env' = lmdb_env
          /\ UNCHANGED config ]_vars

\* A block with a row of the record was returned and the bank still is the
\* merge of the partitions.
C16_Witness ==
    /\ device = "gpu"
    /\ last.status = "ok"
    /\ last.video_id = "x"
    /\ \E r \in DOMAIN last.lt_feats.from :
           last.lt_feats.from[r] # NotAssigned
    /\ lfb[0] = Merge(EmptyDict, dataset_modes)
    /\ lfb[0].map["x"] = RecA

\* C17: a query for an entity the backend holds returns, whatever the
\* timestamp (a window that starts below second 0, or that lies partly or
\* wholly outside the record's seconds), a block of
\* window_size * max_num_sampled_feat rows of lfb_channels columns in which
\* the rows of every second the record does not have are zero.
C17_AnyTimestamp ==
    (LookedUp /\ Present) =>
        /\ last.status = "ok"
        /\ DOMAIN last.lt_feats.rows = AllRows
        /\ \A r \in AllRows : Len(last.lt_feats.rows[r]) = lfb_channels
        /\ \A idx \in 0 .. (window_size - 1) :
               (WindowStart + idx) \notin DOMAIN Queried =>
                   \A r \in SlotGroup(idx) : last.lt_feats.rows[r] = ZeroRow

\* The key 'y,-1': a negative timestamp, the window starts below zero and
\* only its last second, 0, is in the record.
C17_Witness ==
    /\ last.op = "getitem"
    /\ last.status = "ok"
    /\ last.video_id = "y"
    /\ last.timestamp = 0 - 1
    /\ WindowStart < 0 - 1
    /\ Window \cap DOMAIN Queried = {0}

\* Some second of the last query's window has two features or more.
CrowdedSecond ==
    \E sec \in Window \cap DOMAIN Queried : Len(Queried[sec]) >= 2

\* Some second of the last query's window has two features that differ.
DistinctFeatures ==
    \E sec \in Window \cap DOMAIN Queried :
        \E i, j \in 1 .. Len(Queried[sec]) : Queried[sec][i] # Queried[sec][j]

\* The same query can return a block other than the one it last returned.
OtherBlock ==
    \E o \in QueryOutcomes(last.rank, last.video_id, last.timestamp) :
        o.status = "ok" /\ o.lt_feats.rows # last.lt_feats.rows

\* C18 as stated: whenever some second of the window has at least two
\* recorded features, a second run of the same query can return a
\* different block.
C18_NotDeterministic ==
    (last.status = "ok" /\ CrowdedSecond) => OtherBlock

\* C18 amended: whenever some second of the window has two features that
\* differ, a second run of the same query can return a different block.
C18_NotDeterministicDistinct ==
    (last.status = "ok" /\ DistinctFeatures) => OtherBlock

\* One feature of two that differ was drawn (K = 1): the other can be.
C18_Witness ==
    /\ last.status = "ok"
    /\ max_num_sampled_feat = 1
    /\ last.video_id = "x"
    /\ Queried = RecA
    /\ 2 \in Window
    /\ OtherBlock

\* C19: a tuple given as dataset_modes is taken as it is and its partitions
\* are merged in its order (the last one that defines an entity gives the
\* record); a plain str is taken as the tuple of that one name, and the
\* bank then is that partition's dict.
C19_Partitions ==
    /\ dataset_modes_arg.kind = "tuple" =>
           dataset_modes = dataset_modes_arg.value
    /\ dataset_modes_arg.kind = "str" =>
           /\ dataset_modes = << dataset_modes_arg.value >>
           /\ \A p \in Procs :
                  (device \in {"gpu", "cpu"} /\ pc[p] = "ready") =>
                      lfb[p] = PartitionFile(dataset_modes_arg.value)
    /\ \A p \in Procs :
           (device \in {"gpu", "cpu"} /\ pc[p] = "ready") =>
               /\ LastWins(lfb[p])
               /\ loads[p] = Len(dataset_modes)

\* dataset_modes='train' was given and the bank is lfb_train.pkl's dict.
C19_Witness ==
    /\ dataset_modes_arg = [kind |-> "str", value |-> "train"]
    /\ device = "cpu"
    /\ pc[0] = "ready"
    /\ loads[0] = 1
    /\ KeySet(lfb[0]) = {"x"}
    /\ lfb[0].map["x"] = RecA

\* C20: a query for an absent entity or with a malformed key raises on its
\* one attempt: the call ends with the exception, having asked the backend
\* at most once (not at all for a malformed key), and no block, partial or
\* whole, is returned.
C20_NoRetryNoSuppression ==
    /\ last.lookups <= 1
    /\ last.status \notin {"ok", "len", "none"} =>
           (last.lt_feats = << >> /\ last.draws = << >>)
    /\ (LookedUp /\ ~Present) =>
           (last.status \notin {"ok", "none"} /\ last.lt_feats = << >>)
    /\ (last.op = "getitem" /\ last.img_key \in MalformedKeys) =>
           /\ last.status \notin {"ok", "none"}
           /\ last.lookups = 0
           /\ last.lt_feats = << >>

\* The gpu backend has raised KeyError for an entity of no partition.
C20_Witness ==
    /\ device = "gpu"
    /\ last.op = "sample"
    /\ last.video_id = "z"
    /\ last.status = "KeyError"
    /\ last.lookups = 1

\* ------------------------------------------- claims on load_lfb_on_lmdb
\* The entries of local_lfb[p] whose transaction is committed, in order.
Done(p) == SubSeq(local_lfb[p].keys, 1, Len(local_lfb[p].keys) - Len(todo[p]))

\* C21: load_lfb_on_lmdb begins one write transaction per entry of the
\* merged bank, puts that entry alone under the id's bytes, and commits
\* before it begins the next: at most one write transaction is open at any
\* time, and when a put fails the store holds the entries committed until
\* then and what it held before for the others.
C21_OneEntryPerTransaction ==
    /\ Cardinality({ p \in Procs : wtxn[p].open }) <= 1
    /\ \A p \in ran_construct :
           /\ wtxn[p].open <=> pc[p] \in {"txn_put", "txn_commit"}
           /\ pc[p] = "txn_put" => wtxn[p].puts = << >>
           /\ pc[p] = "txn_commit" =>
                  wtxn[p].puts =
                      << << Encode(Head(todo[p])),
                            TorchSave(local_lfb[p].map[Head(todo[p])]) >> >>
           /\ begun[p] = Len(Done(p))
                + (IF wtxn[p].open \/ err[p] = "lmdb.MapFullError"
                   THEN 1 ELSE 0)
           /\ Constructed(p) => begun[p] = Cardinality(KeySet(local_lfb[p]))
           /\ err[p] = "lmdb.MapFullError" =>
                  \E before \in StoreChoices :
                      store.kv = PutAll(before.kv, local_lfb[p], Done(p))

\* The put of the second entry has failed: the store that was empty holds
\* the first entry alone.
C21_Witness ==
    /\ err[0] = "lmdb.MapFullError"
    /\ Len(local_lfb[0].keys) = 2
    /\ Len(todo[0]) = 1
    /\ begun[0] = 2
    /\ DOMAIN store.kv = { Encode(Head(local_lfb[0].keys)) }

\* C22: once load_lfb_on_lmdb has returned, the store's keys are the ids of
\* the merged bank, each with the merged record, and no other key.
C22_StoreIsBank ==
    \A p \in Procs :
        Constructed(p) =>
            /\ DOMAIN store.kv = { Encode(e) : e \in KeySet(local_lfb[p]) }
            /\ \A e \in KeySet(local_lfb[p]) :
                   TorchLoad(store.kv[Encode(e)]) = LastRecord(e)

\* C23: a process has been given the replication warning exactly when it
\* ran the 'cpu' branch in a job of more than one process; with the
\* partition files there, the warned process then has the whole bank and
\* is ready.  The 'gpu' and 'lmdb' branches never warn.
C23_ReplicationWarning ==
    \A p \in Procs :
        /\ warned[p] <=>
               (pc[p] # "init" /\ path_exists /\ device = "cpu"
                  /\ world_size > 1)
        /\ device \in {"gpu", "lmdb"} => ~warned[p]
        /\ (warned[p] /\ \A i \in 1 .. Len(dataset_modes) :
                             dataset_modes[i] \in {"train", "val"}) =>
               /\ pc[p] = "ready"
               /\ err[p] = ""
               /\ LastWins(lfb[p])

\* Both processes of a cpu job were warned and hold the bank of two
\* partitions.
C23_Witness ==
    /\ device = "cpu"
    /\ world_size > 1
    /\ \A p \in Procs : warned[p] /\ pc[p] = "ready"
    /\ KeySet(lfb[1]) = {"x", "y"}

\* The process of rank p has its read-only handle or has ended in an error.
Settled(p) == p \in Procs /\ pc[p] \in {"ready", "failed"}

\* C30: in a job of several processes on the lmdb backend, every process
\* eventually has its read-only handle or has ended in an error.
C30_Progress ==
    \A p \in 0 .. (MaxWorld - 1) :
        (p \in Procs /\ device = "lmdb" /\ world_size > 1) ~> Settled(p)

\* ------------------------------------------- claims on safe_save_or_load
\* The call of process i is a save between creating the lock file and
\* having removed it.
InSave(i) == io_mode[i] = "save" /\ io_pc[i] \in {"op", "dump", "rm"}

\* C25: of the processes calling a wrapped save on one file name, at most
\* one at a time is between creating fn.run and removing it.
C25_MutualExclusion ==
    Cardinality({ i \in IOProcs : InSave(i) }) <= 1

\* C26: the op_func of a wrapped load does not run while fn.run exists.
C26_NoLoadDuringSave ==
    \A i \in IOProcs :
        (io_mode[i] = "load" /\ io_pc[i] = "read") => ~run_fn

\* C27: whenever fn.run exists it is eventually removed.
C27_LockReleased == run_fn ~> ~run_fn

\* ------------------------------------------------- claims on run_or_load
\* C28: a call of run_or_load with file_path absent or overwrite true calls
\* func and returns its result, which is then in the file if cache is
\* true; a call with file_path there and overwrite false does not call
\* func and returns the object the file holds.
C28_ComputeOnce ==
    rol.status # "none" =>
        IF rol.overwrite \/ ~rol.before.exists
        THEN /\ rol.called
             /\ rol.status = "returned"
             /\ rol.cache => cache_file = SavePickle(rol.value)
             /\ ~rol.cache => cache_file = rol.before
        ELSE /\ ~rol.called
             /\ rol.status = "returned"
             /\ rol.value = Load(rol.before.bytes)

\* ---------------------------------- claims on LSMDCChoiceDataset.__getitem__
\* C24: no exception leaves __getitem__, whatever the index it is called
\* with, and what it returns carries in img_index, cap_index and raw_index
\* the position of the sample whose video and answer it holds.
C24_RetryNeverRaises ==
    /\ ds_pc # "raised"
    /\ ds_pc = "returned" =>
           /\ ds_ret.img_index \in 0 .. (metadata_len - 1)
           /\ ds_ret.img_index \notin unreadable
           /\ ds_ret.cap_index = ds_ret.img_index
           /\ ds_ret.raw_index = ds_ret.img_index
           /\ ds_ret.image = Video(Metadata(ds_ret.img_index))
           /\ ds_ret.answer = Metadata(ds_ret.img_index).answer

\* ------------------------------------------ claims on the wrap-up functions
\* How many times x occurs in seq.
Count(x, seq) == Cardinality({ i \in 1 .. Len(seq) : seq[i] = x })

\* Rank 0 is between the two barriers, listing, reading or writing.
Merging == w_pc[0] \in {"glob", "read", "write"}

\* C29: while rank 0 lists and reads the per-rank files every rank's file
\* is there, wholly written with that rank's records; a rank removes its
\* file only when rank 0 has written the merged file; and the merged file
\* holds every record of every rank exactly once.
C29_WrapupBarriers ==
    /\ Merging =>
           \A r \in Ranks :
               /\ w_pc[r] \notin {"open", "dump", "remove", "done"}
               /\ submit[r] = [exists |-> TRUE, bytes |-> JsonDump(outs[r])]
    /\ \A r \in Ranks :
           w_pc[r] \in {"remove", "done"} =>
               /\ result_file.exists
               /\ w_pc[0] \in {"in_barrier2", "remove", "done"}
    /\ w_pc[0] # "failed"
    /\ result_file.exists =>
           \A r \in Ranks :
               \A k \in 1 .. Len(outs[r]) :
                   Count(outs[r][k], JsonLoad(result_file.bytes)) = 1
====
